---- MODULE Spec2Model ----
(***************************************************************************)
(* Contact enrichment pipeline of google_maps_scraper: crawler.py          *)
(* (verify_phone, dedupe_preserve_order, format_us_phone_e164,             *)
(* enrich_csv), tools.py (extract_contacts), combined.py (process_city,    *)
(* main) and fix_csv.py (add_plus1, fix_csv).                              *)
(*                                                                         *)
(* A Python str is a sequence of one-character strings; None is the value  *)
(* None below, which is no character string.                               *)
(***************************************************************************)
EXTENDS Integers, Sequences, FiniteSets, TLC

VARIABLES
    uOp,    \* unit harness: the function last applied ("idle" before any call)
    uIn,    \* unit harness: its argument
    uOut,   \* unit harness: its return value
    API_KEY,         \* crawler.API_KEY is set (not None, not empty)
    site_page,       \* environment: the page text the listed website serves
    deliverable,     \* environment: the addresses validate_email accepts
    pc,              \* where combined.main is: main, rows, verify, emails, post, done, fixed
    cityIdx,         \* main: index of the city being processed
    cityStatus,      \* main: per city attempted, "ok" or the exception caught
    nRows,           \* enrich_csv: number of rows of df
    rowIdx,          \* enrich_csv: index of the row being processed
    csv_phone_for_save, \* enrich_csv: the cleaned phone_number cell of the row
    html,            \* enrich_csv: page text of the row ("" when none was fetched)
    candidates,      \* enrich_csv: candidates of the row
    deduped,         \* enrich_csv: dedupe_preserve_order(candidates), the list iterated
    candIdx,         \* enrich_csv: index in deduped of the next phone to verify
    filtered,        \* enrich_csv: filtered of the row
    calls,           \* history: the verify_phone calls of the row
    extracted_emails, \* enrich_csv: extracted_emails of the row
    emIdx,           \* enrich_csv: index in extracted_emails of the next email
    valid_emails,    \* enrich_csv: valid_emails of the row (seen_emails is its set)
    em_calls,        \* history: the validate_email calls of the row
    norm_url,        \* enrich_csv: norm_url of the row, None when there is none
    fetches,         \* history: number of page fetches of the run
    phones_col,      \* enrich_csv: phones_col
    addl_phones_col, \* enrich_csv: addl_phones_col
    email_col,       \* enrich_csv: email_col
    enriched,        \* the rows of the -enriched.csv file written by enrich_csv
    outputs,         \* the files written to output/, each a list of rows
    fixed            \* per file of outputs, the rows fix_csv wrote to fixed/

uvars == <<uOp, uIn, uOut>>

\* the local variables of a row of enrich_csv and their histories
rowvars == <<csv_phone_for_save, html, candidates, deduped, candIdx, filtered, calls,
             extracted_emails, emIdx, valid_emails, em_calls, norm_url>>

\* the three columns enrich_csv builds
colvars == <<phones_col, addl_phones_col, email_col>>

\* the files
filevars == <<enriched, outputs, fixed>>

pvars == <<API_KEY, site_page, deliverable, pc, cityIdx, cityStatus, nRows, rowIdx, fetches,
           rowvars, colvars, filevars>>

vars == <<uvars, pvars>>

(***************************************************************************)
(* Characters and strings                                                  *)
(***************************************************************************)
Digits == {"0", "1", "2", "3", "4", "5", "6", "7", "8", "9"}

IsDigit(c) == c \in Digits

UpperLetters ==
    <<"A", "B", "C", "D", "E", "F", "G", "H", "I", "J", "K", "L", "M",
      "N", "O", "P", "Q", "R", "S", "T", "U", "V", "W", "X", "Y", "Z">>

LowerLetters ==
    <<"a", "b", "c", "d", "e", "f", "g", "h", "i", "j", "k", "l", "m",
      "n", "o", "p", "q", "r", "s", "t", "u", "v", "w", "x", "y", "z">>

Range(seq) == { seq[k] : k \in 1..Len(seq) }

IndexOf(seq, c) == CHOOSE k \in 1..Len(seq) : seq[k] = c

\* [a-zA-Z]
Letters == Range(UpperLetters) \cup Range(LowerLetters)

\* \w, for ASCII text
WordChars == Letters \cup Digits \cup {"_"}

None == <<"None">>

IsBareRun(s) == \A k \in 1..Len(s) : IsDigit(s[k])

RECURSIVE Concat(_)
Concat(ss) == IF ss = <<>> THEN <<>> ELSE Head(ss) \o Concat(Tail(ss))

StartsWith(s, p) == Len(s) >= Len(p) /\ SubSeq(s, 1, Len(p)) = p

(***************************************************************************)
(* crawler.py helpers                                                      *)
(***************************************************************************)
\* re.sub(r"\D", "", s or "")
digits_only(s) == SelectSeq(s, IsDigit)

\* dedupe_preserve_order with a fault: entries without digits are kept
RECURSIVE dedupe_loop_keep_blank(_, _, _)
dedupe_loop_keep_blank(values, seen, result) ==
    IF values = <<>> THEN result
    ELSE LET v == Head(values)
             key == digits_only(v)
         IN  IF key # <<>> /\ key \in seen
             THEN dedupe_loop_keep_blank(Tail(values), seen, result)
             ELSE dedupe_loop_keep_blank(Tail(values), seen \cup {key}, Append(result, v))

dedupe_keep_blank(values) == dedupe_loop_keep_blank(values, {}, <<>>)

\* the for loop of dedupe_preserve_order: seen is the set of keys, result the list
RECURSIVE dedupe_loop(_, _, _)
dedupe_loop(values, seen, result) ==
    IF values = <<>> THEN result
    ELSE LET v == Head(values)
             key == digits_only(v)
         IN  IF key = <<>> THEN dedupe_loop(Tail(values), seen, result)
             ELSE IF key \in seen THEN dedupe_loop(Tail(values), seen, result)
             ELSE dedupe_loop(Tail(values), seen \cup {key}, Append(result, v))

dedupe_preserve_order(values) == dedupe_loop(values, {}, <<>>)

\* format_us_phone_e164 with a fault: the leading-1 test of the 11-digit case is lost
format_no_leading_one_test(value) ==
    LET d == digits_only(value)
    IN  IF d = <<>> THEN None
        ELSE IF Len(d) = 10 THEN <<"+", "1">> \o d
        ELSE IF Len(d) = 11 THEN <<"+">> \o d
        ELSE None

format_us_phone_e164(value) ==
    LET d == digits_only(value)
    IN  IF d = <<>> THEN None
        ELSE IF Len(d) = 10 THEN <<"+", "1">> \o d
        ELSE IF Len(d) = 11 /\ d[1] = "1" THEN <<"+">> \o d
        ELSE IF StartsWith(value, <<"+", "1">>) /\ Len(d) = 11 THEN value
        ELSE None

(***************************************************************************)
(* crawler.py: verify_phone                                                *)
(*                                                                         *)
(* What the validation service does with one request is an outcome:        *)
(*   raise     requests.get or raise_for_status raises (transport error,   *)
(*             timeout, non-2xx status)                                    *)
(*   malformed response.json() raises (the body is no JSON)                *)
(*   nondict   the body is JSON but no object (data.get raises)            *)
(*   json      a JSON object; each of valid, isDisposable and type is      *)
(*             "absent" or the JSON value it holds                         *)
(* The result is "True", "False" or "ValueError" (the exception raised     *)
(* when API_KEY is not set).                                               *)
(***************************************************************************)
JsonBool == {"absent", "true", "false", "null"}

JsonType == {"absent", "null", "mobile", "Mobile", "MOBILE", "fixed_line_or_mobile",
             "Fixed_Line_Or_Mobile", "landline", "voip"}

JsonOutcomes ==
    { [kind |-> "json", valid |-> v, isDisposable |-> x, type |-> t] :
        <<v, x, t>> \in JsonBool \X JsonBool \X JsonType }

FailedOutcome(k) == [kind |-> k, valid |-> "absent", isDisposable |-> "absent", type |-> "absent"]

FailedOutcomes == { FailedOutcome(k) : k \in {"raise", "malformed", "nondict"} }

ApiOutcomes == JsonOutcomes \cup FailedOutcomes

\* data.get(key, False) as a truth value: an absent key gives the default False,
\* JSON null gives None
Truthy(v) == v = "true"

\* str(data.get("type", "")).lower()
LineType(t) ==
    CASE t = "absent" -> ""
      [] t = "null" -> "none"
      [] t \in {"mobile", "Mobile", "MOBILE"} -> "mobile"
      [] t \in {"fixed_line_or_mobile", "Fixed_Line_Or_Mobile"} -> "fixed_line_or_mobile"
      [] OTHER -> t

\* verify_phone with a fault: a failed call accepts the number (fail-open)
verify_phone_fail_open(api_key, number, outcome) ==
    IF ~api_key THEN "ValueError"
    ELSE IF digits_only(number) = <<>> THEN "False"
    ELSE IF outcome.kind # "json" THEN "True"
    ELSE IF ~Truthy(outcome.valid) THEN "False"
    ELSE IF Truthy(outcome.isDisposable) THEN "False"
    ELSE IF LineType(outcome.type) \in {"mobile", "fixed_line_or_mobile"} THEN "True"
    ELSE "False"

verify_phone(api_key, number, outcome) ==
    IF ~api_key THEN "ValueError"
    ELSE IF digits_only(number) = <<>> THEN "False"
    ELSE IF outcome.kind # "json" THEN "False"
    ELSE IF ~Truthy(outcome.valid) THEN "False"
    ELSE IF Truthy(outcome.isDisposable) THEN "False"
    ELSE IF LineType(outcome.type) \in {"mobile", "fixed_line_or_mobile"} THEN "True"
    ELSE "False"

(***************************************************************************)
(* tools.py: extract_contacts, the phone part                              *)
(*                                                                         *)
(* A matcher returns the index after the match that starts at i, or 0 when *)
(* none starts there.  In both patterns every optional or repeated item is *)
(* followed by an item of a disjoint character class, so that at most one  *)
(* match starts at a position and backtracking finds no other.             *)
(***************************************************************************)
Seps == {" ", "-", "."}

Lit(text, i, c) == IF i # 0 /\ i <= Len(text) /\ text[i] = c THEN i + 1 ELSE 0

Opt(text, i, S) == IF i # 0 /\ i <= Len(text) /\ text[i] \in S THEN i + 1 ELSE i

DigitsN(text, i, n) ==
    IF i # 0 /\ i + n - 1 <= Len(text) /\ \A k \in 0..(n - 1) : IsDigit(text[i + k])
    THEN i + n ELSE 0

RECURSIVE SkipSeps(_, _)
SkipSeps(text, i) == IF i <= Len(text) /\ text[i] \in Seps THEN SkipSeps(text, i + 1) ELSE i

\* [\s\-\.]+
Sep1(text, i) == IF i # 0 /\ i <= Len(text) /\ text[i] \in Seps THEN SkipSeps(text, i + 1) ELSE 0

\* [\s\-\.]* : separators made optional
Sep0(text, i) == IF i # 0 THEN SkipSeps(text, i) ELSE 0

\* \+1[\s\-\.]?\(?\d{3}\)?[\s\-\.]?\d{3}[\s\-\.]?\d{4}
MatchPlus1(text, i) ==
    LET a == Lit(text, Lit(text, i, "+"), "1")
        b == Opt(text, Opt(text, a, Seps), {"("})
        c == Opt(text, Opt(text, DigitsN(text, b, 3), {")"}), Seps)
        d == Opt(text, DigitsN(text, c, 3), Seps)
    IN  DigitsN(text, d, 4)

\* MatchSeparated with a fault: the separators are optional
MatchUnseparated(text, i) ==
    LET a == Opt(text, i, {"("})
        b == Sep0(text, Opt(text, DigitsN(text, a, 3), {")"}))
        c == Sep0(text, DigitsN(text, b, 3))
    IN  DigitsN(text, c, 4)

\* \(?\d{3}\)?[\s\-\.]+\d{3}[\s\-\.]+\d{4}
MatchSeparated(text, i) ==
    LET a == Opt(text, i, {"("})
        b == Sep1(text, Opt(text, DigitsN(text, a, 3), {")"}))
        c == Sep1(text, DigitsN(text, b, 3))
    IN  DigitsN(text, c, 4)

\* phone_patterns, in the order of the list
MatchAt(p, text, i) == IF p = 1 THEN MatchPlus1(text, i) ELSE MatchSeparated(text, i)

\* pattern.findall(text): the non-overlapping matches from left to right, each
\* with the index it starts at
RECURSIVE FindAll(_, _, _)
FindAll(p, text, i) ==
    IF i > Len(text) THEN <<>>
    ELSE LET e == MatchAt(p, text, i)
         IN  IF e # 0
             THEN <<[start |-> i, match |-> SubSeq(text, i, e - 1)]>> \o FindAll(p, text, e)
             ELSE FindAll(p, text, i + 1)

\* lines 70-76: the string a match adds to phones, or None
MatchPhone(match) ==
    LET num == digits_only(match)
        num2 == IF Len(num) = 10 THEN <<"+", "1">> \o num
                ELSE IF Len(num) = 11 /\ num[1] = "1" THEN <<"+">> \o num
                ELSE num
    IN  IF Len(num2) = 12 /\ StartsWith(num2, <<"+", "1">>) THEN num2 ELSE None

AllMatches(text) == FindAll(1, text, 1) \o FindAll(2, text, 1)

\* the set phones after the two loops
PhoneSet(text) ==
    { MatchPhone(AllMatches(text)[k].match) : k \in 1..Len(AllMatches(text)) } \ {None}

\* the code point of a character
CharCode(c) ==
    CASE c = " " -> 32 [] c = "(" -> 40 [] c = ")" -> 41 [] c = "+" -> 43
      [] c = "-" -> 45 [] c = "." -> 46
      [] c = "0" -> 48 [] c = "1" -> 49 [] c = "2" -> 50 [] c = "3" -> 51
      [] c = "4" -> 52 [] c = "5" -> 53 [] c = "6" -> 54 [] c = "7" -> 55
      [] c = "8" -> 56 [] c = "9" -> 57 [] c = ";" -> 59
      [] c = "%" -> 37 [] c = "," -> 44 [] c = "/" -> 47 [] c = ":" -> 58
      [] c = "@" -> 64 [] c = "[" -> 91 [] c = "]" -> 93 [] c = "_" -> 95
      [] c \in Range(UpperLetters) -> 64 + IndexOf(UpperLetters, c)
      [] c \in Range(LowerLetters) -> 96 + IndexOf(LowerLetters, c)
      [] OTHER -> 120

\* a < b for two Python str
StrLess(a, b) ==
    \E k \in 1..Len(b) :
        /\ k <= Len(a) + 1
        /\ \A j \in 1..(k - 1) : a[j] = b[j]
        /\ k = Len(a) + 1 \/ CharCode(a[k]) < CharCode(b[k])

\* sorted(S) for a set of str
RECURSIVE Sorted(_)
Sorted(S) ==
    IF S = {} THEN <<>>
    ELSE LET m == CHOOSE x \in S : \A y \in S : y = x \/ StrLess(x, y)
         IN  <<m>> \o Sorted(S \ {m})

\* the order in which the phones are first seen in the text
RECURSIVE ByFirstSeen(_, _)
ByFirstSeen(text, S) ==
    IF S = {} THEN <<>>
    ELSE LET first(x) == CHOOSE i \in 1..Len(text) :
                 /\ \E k \in 1..Len(AllMatches(text)) :
                        /\ AllMatches(text)[k].start = i
                        /\ MatchPhone(AllMatches(text)[k].match) = x
                 /\ \A k \in 1..Len(AllMatches(text)) :
                        MatchPhone(AllMatches(text)[k].match) = x
                            => AllMatches(text)[k].start >= i
             m == CHOOSE x \in S : \A y \in S : first(x) <= first(y)
         IN  <<m>> \o ByFirstSeen(text, S \ {m})

(***************************************************************************)
(* tools.py: extract_contacts, the email part                              *)
(*                                                                         *)
(* email_pattern is \b[a-zA-Z0-9._%+-]+@[a-zA-Z0-9.-]+\.[a-zA-Z]{2,}\b.    *)
(* The local class holds no @, so the local part of a match that starts at *)
(* i is the whole run of the class from i and the @ follows it.  The       *)
(* domain part is greedy: it ends before the last dot of the run of its    *)
(* class after which two or more letters and a word boundary follow; the   *)
(* letters of a match are the whole run of letters, a shorter run being    *)
(* followed by a letter and so by no boundary.                             *)
(***************************************************************************)
EmailLocalChars == Letters \cup Digits \cup {".", "_", "%", "+", "-"}

EmailDomainChars == Letters \cup Digits \cup {".", "-"}

IsWordAt(text, i) == i >= 1 /\ i <= Len(text) /\ text[i] \in WordChars

\* \b between text[i - 1] and text[i]
Boundary(text, i) == IsWordAt(text, i - 1) # IsWordAt(text, i)

\* the index after the run of characters of S that starts at i
RECURSIVE RunEnd(_, _, _)
RunEnd(text, i, S) == IF i <= Len(text) /\ text[i] \in S THEN RunEnd(text, i + 1, S) ELSE i

\* the index after the email match that starts at i, or 0
MatchEmail(text, i) ==
    LET at == RunEnd(text, i, EmailLocalChars)
        r == RunEnd(text, at + 1, EmailDomainChars)
        \* the positions of a dot that can end the domain part
        dots == { j \in (at + 2)..(r - 1) :
                    /\ text[j] = "."
                    /\ RunEnd(text, j + 1, Letters) - (j + 1) >= 2
                    /\ Boundary(text, RunEnd(text, j + 1, Letters)) }
        last == CHOOSE j \in dots : \A k \in dots : k <= j
    IN  IF Boundary(text, i) /\ at > i /\ at <= Len(text) /\ text[at] = "@" /\ dots # {}
        THEN RunEnd(text, last + 1, Letters)
        ELSE 0

\* email_pattern.findall(text): the non-overlapping matches from left to right
RECURSIVE FindAllEmails(_, _)
FindAllEmails(text, i) ==
    IF i > Len(text) THEN <<>>
    ELSE LET e == MatchEmail(text, i)
         IN  IF e # 0
             THEN <<SubSeq(text, i, e - 1)>> \o FindAllEmails(text, e)
             ELSE FindAllEmails(text, i + 1)

\* set(email_pattern.findall(text))
EmailSet(text) == Range(FindAllEmails(text, 1))

\* extract_contacts with a fault: the phones are returned as first seen, unsorted
extract_contacts_unsorted(text) ==
    [phones |-> ByFirstSeen(text, PhoneSet(text)), emails |-> Sorted(EmailSet(text))]

extract_contacts(text) ==
    [phones |-> Sorted(PhoneSet(text)), emails |-> Sorted(EmailSet(text))]

(***************************************************************************)
(* Phone strings used as inputs                                            *)
(***************************************************************************)
NumA == <<"8", "3", "2", "8", "1", "0", "7", "8", "2", "2">>
NumB == <<"5", "5", "5", "1", "2", "3", "4", "5", "6", "7">>
NumC == <<"1", "0", "3", "5", "5", "5", "0", "1", "9", "9">>

\* 832-810-7822
Dashed(n) == SubSeq(n, 1, 3) \o <<"-">> \o SubSeq(n, 4, 6) \o <<"-">> \o SubSeq(n, 7, Len(n))
\* (832) 810-7822
Paren(n) == <<"(">> \o SubSeq(n, 1, 3) \o <<")", " ">> \o SubSeq(n, 4, 6) \o <<"-">>
            \o SubSeq(n, 7, Len(n))
\* +1 (832) 810-7822
PlusParen(n) == <<"+", "1", " ">> \o Paren(n)
\* +18328107822
Canon(n) == <<"+", "1">> \o n

IsCanonical(s) ==
    /\ Len(s) = 12
    /\ s[1] = "+"
    /\ s[2] = "1"
    /\ \A i \in 3..12 : IsDigit(s[i])

\* the US number a string writes: its ten national digits, or None
USNumber(s) ==
    LET d == digits_only(s)
    IN  IF Len(d) = 10 THEN d
        ELSE IF Len(d) = 11 /\ d[1] = "1" THEN Tail(d)
        ELSE None

(***************************************************************************)
(* Python str operations and pandas cells                                  *)
(***************************************************************************)
\* a missing cell as pandas reads it
NaN == <<"NaN">>

\* str(x) of a cell that is a str or NaN
Str(x) == IF x = NaN THEN <<"n", "a", "n">> ELSE x

Whitespace == {" "}

RECURSIVE LStrip(_)
LStrip(s) == IF s # <<>> /\ Head(s) \in Whitespace THEN LStrip(Tail(s)) ELSE s

RECURSIVE RStrip(_)
RStrip(s) ==
    IF s # <<>> /\ s[Len(s)] \in Whitespace THEN RStrip(SubSeq(s, 1, Len(s) - 1)) ELSE s

\* s.strip()
Strip(s) == RStrip(LStrip(s))

\* s.replace(c, "")
Remove(s, c) == SelectSeq(s, LAMBDA x : x # c)

\* s.lower(), for ASCII text
LowerChar(c) ==
    IF c \in Range(UpperLetters) THEN LowerLetters[IndexOf(UpperLetters, c)] ELSE c

Lower(s) == [k \in 1..Len(s) |-> LowerChar(s[k])]

EndsWith(s, p) == Len(s) >= Len(p) /\ SubSeq(s, Len(s) - Len(p) + 1, Len(s)) = p

\* s.split(c)
RECURSIVE SplitLoop(_, _, _)
SplitLoop(s, c, cur) ==
    IF s = <<>> THEN <<cur>>
    ELSE IF Head(s) = c THEN <<cur>> \o SplitLoop(Tail(s), c, <<>>)
    ELSE SplitLoop(Tail(s), c, Append(cur, Head(s)))

Split(s, c) == SplitLoop(s, c, <<>>)

\* sep.join(parts)
RECURSIVE Join(_, _)
Join(parts, sep) ==
    IF parts = <<>> THEN <<>>
    ELSE IF Len(parts) = 1 THEN parts[1]
    ELSE parts[1] \o sep \o Join(Tail(parts), sep)

CommaSpace == <<",", " ">>

\* str(int(d)) for a non-empty string of digits: the leading zeros are lost
RECURSIVE IntStr(_)
IntStr(d) == IF Len(d) > 1 /\ Head(d) = "0" THEN IntStr(Tail(d)) ELSE d

(***************************************************************************)
(* crawler.py: clean_csv_phone_for_save, normalize_url                     *)
(***************************************************************************)
clean_csv_phone_for_save(s) == IF s = NaN THEN <<>> ELSE Strip(Remove(Str(s), "-"))

Https == <<"h", "t", "t", "p", "s", ":", "/", "/">>
Http == <<"h", "t", "t", "p", ":", "/", "/">>

\* index of the first character of s from position i on that is in S, or Len(s) + 1
RECURSIVE FindFirst(_, _, _)
FindFirst(s, i, S) ==
    IF i > Len(s) THEN Len(s) + 1
    ELSE IF s[i] \in S THEN i ELSE FindFirst(s, i + 1, S)

Count(s, c) == Cardinality({ k \in 1..Len(s) : s[k] = c })

\* what normalize_url leaves with when urlparse raises ValueError("Invalid IPv6 URL")
InvalidURL == <<"ValueError: Invalid IPv6 URL">>

\* normalize_url; urlparse of scheme://netloc/path?query#fragment, which raises
\* when the netloc holds one of [ and ] without the other
normalize_url(raw) ==
    LET s0 == Strip(Str(raw))
        s == IF StartsWith(s0, Http) \/ StartsWith(s0, Https) THEN s0 ELSE Https \o s0
        rest == SubSeq(s, FindFirst(s, 1, {":"}) + 3, Len(s))
        nl == SubSeq(rest, 1, FindFirst(rest, 1, {"/", "?", "#"}) - 1)
        tail == SubSeq(rest, Len(nl) + 1, Len(rest))
        pth == SubSeq(tail, 1, FindFirst(tail, 1, {"?", "#"}) - 1)
        netloc == IF nl = <<>> /\ pth # <<>> THEN pth ELSE nl
        path == IF nl = <<>> /\ pth # <<>> THEN <<>> ELSE pth
        www == <<"w", "w", "w", ".">>
        host == IF ~StartsWith(Lower(netloc), www) /\ Count(netloc, ".") = 1
                THEN www \o netloc ELSE netloc
    IN  IF s0 = <<>> \/ Lower(s0) \in { <<"n", "a", "n">>, <<"n", "o", "n", "e">>,
                                        <<"n", "u", "l", "l">> }
        THEN None
        ELSE IF ("[" \in Range(nl)) # ("]" \in Range(nl)) THEN InvalidURL
        ELSE IF netloc = <<>> THEN None
        ELSE Https \o host \o (IF path = <<>> THEN <<"/">> ELSE path)

(***************************************************************************)
(* combined.py and fix_csv.py: reading a CSV column, add_plus1,            *)
(* clean_additional_phones                                                 *)
(***************************************************************************)
\* a cell text pandas parses as a number: an optional sign and digits
IsNumeric(c) ==
    LET body == IF c # <<>> /\ Head(c) \in {"+", "-"} THEN Tail(c) ELSE c
    IN  body # <<>> /\ IsBareRun(body)

\* pd.read_csv(path, dtype={column: str}): the text of a cell, NaN when empty
ReadStrColumn(col) == [k \in 1..Len(col) |-> IF col[k] = <<>> THEN NaN ELSE col[k]]

\* pd.read_csv(path) of a column of phone cells, each cell as str() shows it: a
\* column whose non-empty cells are all numbers is int64, or float64 when a cell
\* is empty, and loses the plus sign
ReadInferredColumn(col) ==
    LET numeric == \A k \in 1..Len(col) : col[k] = <<>> \/ IsNumeric(col[k])
        float == \E k \in 1..Len(col) : col[k] = <<>>
        num(c) == IntStr(IF Head(c) = "+" THEN Tail(c) ELSE c)
    IN  [k \in 1..Len(col) |->
            IF col[k] = <<>> THEN NaN
            ELSE IF ~numeric THEN col[k]
            ELSE IF float THEN num(col[k]) \o <<".", "0">>
            ELSE num(col[k])]

\* combined.py add_plus1 (lines 217-236)
add_plus1(phone_str) ==
    LET s0 == Strip(Str(phone_str))
        s == IF EndsWith(s0, <<".", "0">>) THEN SubSeq(s0, 1, Len(s0) - 2) ELSE s0
        digits == digits_only(s)
    IN  IF phone_str = NaN \/ phone_str = <<>> \/ Lower(Str(phone_str)) = <<"n", "a", "n">>
        THEN <<>>
        ELSE IF StartsWith(s, <<"+">>) THEN s
        ELSE IF Len(digits) = 10 THEN <<"+", "1">> \o digits
        ELSE IF Len(digits) = 11 /\ digits[1] = "1" THEN <<"+">> \o digits
        ELSE s

\* fix_csv.py add_plus1 (lines 28-40)
fix_add_plus1(phone_str) ==
    LET s == Strip(Str(phone_str))
        digits == digits_only(s)
    IN  IF phone_str = NaN \/ phone_str = <<>> THEN <<>>
        ELSE IF StartsWith(s, <<"+">>) THEN s
        ELSE IF Len(digits) = 10 THEN <<"+", "1">> \o digits
        ELSE IF Len(digits) = 11 /\ digits[1] = "1" THEN <<"+">> \o digits
        ELSE s

\* combined.py clean_additional_phones (lines 244-255)
clean_additional_phones(main_cell, addl_cell) ==
    LET main_phone == Strip(Str(main_cell))
        addl_phones == Strip(Str(addl_cell))
        parts == Split(addl_phones, ",")
        phones == [k \in 1..Len(parts) |-> add_plus1(Strip(parts[k]))]
        kept == SelectSeq(phones, LAMBDA q : q # <<>> /\ q # main_phone)
    IN  IF addl_phones = <<>> \/ addl_phones = <<"n", "a", "n">> THEN <<>>
        ELSE Join(kept, CommaSpace)

\* fix_csv.py clean_additional_phones (lines 68-79)
fix_clean_additional_phones(main_cell, addl_cell) ==
    LET main_phone == Strip(Str(main_cell))
        addl_phones == Strip(Str(addl_cell))
        parts == Split(addl_phones, ",")
        phones == [k \in 1..Len(parts) |-> fix_add_plus1(Strip(parts[k]))]
        kept == SelectSeq(phones, LAMBDA q : q # <<>> /\ q # main_phone)
    IN  IF addl_phones = <<>> \/ addl_phones = <<"n", "a", "n">> THEN <<>>
        ELSE Join(kept, CommaSpace)

\* combined.py split_emails (lines 261-272): Email and Additional Emails of a cell
split_emails(email_str) ==
    LET parts == Split(Str(email_str), ",")
        emails == SelectSeq([k \in 1..Len(parts) |-> Strip(parts[k])], LAMBDA e : e # <<>>)
    IN  IF email_str = NaN \/ email_str = <<>> THEN << <<>>, <<>> >>
        ELSE IF emails = <<>> THEN << <<>>, <<>> >>
        ELSE IF Len(emails) = 1 THEN << emails[1], <<>> >>
        ELSE << emails[1], Join(Tail(emails), CommaSpace) >>

\* what validate_email(em_str, check_deliverability=True) does with an address:
\* it returns, or raises EmailNotValidError (syntax or deliverability)
EmailOutcome(em_str, accepted) == IF em_str \in accepted THEN "valid" ELSE "EmailNotValidError"

\* info.email of an address that validate_email accepts: the domain in lower case
validate_email(em_str, outcome) ==
    LET at == FindFirst(em_str, 1, {"@"})
    IN  IF outcome = "valid"
        THEN SubSeq(em_str, 1, at) \o Lower(SubSeq(em_str, at + 1, Len(em_str)))
        ELSE <<"EmailNotValidError">>

Column(rows, f) == [k \in 1..Len(rows) |-> rows[k][f]]

\* Series.unique(): the values in the order they first appear
RECURSIVE Unique(_)
Unique(seq) ==
    IF seq = <<>> THEN <<>>
    ELSE LET init == Unique(SubSeq(seq, 1, Len(seq) - 1))
         IN  IF seq[Len(seq)] \in Range(init) THEN init ELSE Append(init, seq[Len(seq)])

\* process_city join_phones (lines 188-191): the phone cell of a group of listings
join_phones(series) ==
    LET present == SelectSeq(series, LAMBDA x : x # NaN)
        stripped == [k \in 1..Len(present) |-> Strip(Str(present[k]))]
        phones == Unique(SelectSeq(stripped, LAMBDA x : x # <<>>))
    IN  IF Len(phones) > 0 THEN Join(phones, <<";", " ">>) ELSE NaN

\* process_city lines 193-201: one row per name, in the order of the names, with
\* the phone cells of the listings of that name joined
df_deduped(listings) ==
    LET names == Sorted({ listings[k].name : k \in 1..Len(listings) })
        of(n) == SelectSeq(listings, LAMBDA l : l.name = n)
    IN  [k \in 1..Len(names) |->
            [name |-> names[k],
             phone_number |-> join_phones(Column(of(names[k]), "phone_number"))]]

\* enrich_csv lines 248-271: the candidates of a row
candidates_of(raw_csv_phone, extracted_phones) ==
    LET cleaned == clean_csv_phone_for_save(raw_csv_phone)
    IN  (IF cleaned # <<>> THEN <<cleaned>> ELSE <<>>) \o extracted_phones

\* enrich_csv lines 274-289 when verify_phone accepts every number it is given
RECURSIVE filtered_all_accepted(_)
filtered_all_accepted(phones) ==
    IF phones = <<>> THEN <<>>
    ELSE LET normalized == format_us_phone_e164(Head(phones))
         IN  (IF digits_only(Head(phones)) # <<>> /\ normalized # None
              THEN <<normalized>> ELSE <<>>) \o filtered_all_accepted(Tail(phones))

\* process_city lines 214-257: the enriched file read with Phone and Additional
\* Phones as str, then the two columns rewritten
process_city_phones(rows) ==
    LET phone == ReadStrColumn(Column(rows, "Phone"))
        addl == ReadStrColumn(Column(rows, "AdditionalPhones"))
        phone2 == [k \in 1..Len(rows) |-> add_plus1(phone[k])]
    IN  [k \in 1..Len(rows) |->
            [Phone |-> phone2[k],
             AdditionalPhones |-> clean_additional_phones(phone2[k], addl[k])]]

\* process_city lines 214-276: the rows with the email cell split
process_city_rows(rows) ==
    LET email == ReadInferredColumn(Column(rows, "Email"))
    IN  [k \in 1..Len(rows) |->
            [Phone |-> process_city_phones(rows)[k].Phone,
             AdditionalPhones |-> process_city_phones(rows)[k].AdditionalPhones,
             Email |-> split_emails(email[k])[1],
             AdditionalEmails |-> split_emails(email[k])[2]]]

\* process_city line 283
chunk_size == 100

\* the chunking with the number of chunks rounded down instead of up
chunk_files_floor(rows, size) ==
    LET total_rows == Len(rows)
        num_chunks == total_rows \div size
    IN  IF num_chunks = 1 THEN <<rows>>
        ELSE [i \in 1..num_chunks |->
                SubSeq(rows, (i - 1) * size + 1,
                       IF i * size < total_rows THEN i * size ELSE total_rows)]

\* process_city lines 284-303: the files written for a table, each a list of rows
chunk_files(rows, size) ==
    LET total_rows == Len(rows)
        num_chunks == (total_rows + size - 1) \div size
    IN  IF num_chunks = 1 THEN <<rows>>
        ELSE [i \in 1..num_chunks |->
                SubSeq(rows, (i - 1) * size + 1,
                       IF i * size < total_rows THEN i * size ELSE total_rows)]

\* fix_csv lines 57-106: a file read without dtype, then the two phone columns
\* rewritten; a file that has Additional Emails keeps its email columns
fix_csv(rows) ==
    LET phone == ReadInferredColumn(Column(rows, "Phone"))
        addl == ReadInferredColumn(Column(rows, "AdditionalPhones"))
        phone2 == [k \in 1..Len(rows) |-> fix_add_plus1(phone[k])]
    IN  [k \in 1..Len(rows) |->
            [Phone |-> phone2[k],
             AdditionalPhones |-> fix_clean_additional_phones(phone2[k], addl[k]),
             Email |-> rows[k].Email,
             AdditionalEmails |-> rows[k].AdditionalEmails]]

\* the unit harness before any call
UInit ==
    /\ uOp = "idle"
    /\ uIn = <<>>
    /\ uOut = <<>>

(***************************************************************************)
(* The run of combined.main followed by fix_csv.main                       *)
(***************************************************************************)
NumCities == 2
MaxRows == 2

\* NumA written with the trunk prefix 0 before the country code
ZeroOne(n) == <<"0", "1", " ">> \o Dashed(n)

\* phone_number cells of temp_combined.csv as enrich_csv reads them: scraped
\* phones carry separators, so the column is read as text; one is a number
\* behind a trunk prefix, the last is two phones of one name merged by
\* join_phones
CsvPhones ==
    { NaN, Dashed(NumA), PlusParen(NumB), ZeroOne(NumA),
      Dashed(NumA) \o <<";", " ">> \o Dashed(NumB) }

\* website cells: none, a bare domain, a scheme without host, a host with a stray
\* bracket
Websites ==
    { NaN, <<"e", "x", "a", "m", "p", "l", "e", ".", "c", "o", "m">>, Http,
      <<"[", "e", "x", "a", "m", "p", "l", "e", ".", "c", "o", "m">> }

PageA == <<"c", "a", "l", "l", " ">> \o Dashed(NumA)

PageAB ==
    SubSeq(NumA, 1, 3) \o <<".">> \o SubSeq(NumA, 4, 6) \o <<".">> \o SubSeq(NumA, 7, 10)
        \o <<" ">> \o PlusParen(NumB)

\* I@b.io a@c.io i@b.io
PageMail ==
    <<"I", "@", "b", ".", "i", "o", " ", "a", "@", "c", ".", "i", "o", " ",
      "i", "@", "b", ".", "i", "o">>

\* the pages a website can serve
Pages == { PageA, PageAB, PageMail }

\* fetch_page_text (lines 166-176): the text of the response, "" on any failure
fetch_page_text(served) == { <<>>, served }

Accepting == [kind |-> "json", valid |-> "true", isDisposable |-> "false", type |-> "mobile"]

Rejecting == [kind |-> "json", valid |-> "false", isDisposable |-> "false", type |-> "landline"]

\* what the validation service does with a request of the run
RunOutcomes == { FailedOutcome("raise"), FailedOutcome("malformed"), Accepting, Rejecting }

PInit ==
    /\ pc = "main"
    /\ cityIdx = 1
    /\ cityStatus = <<>>
    /\ nRows = 0
    /\ rowIdx = 0
    /\ csv_phone_for_save = <<>>
    /\ html = <<>>
    /\ candidates = <<>>
    /\ deduped = <<>>
    /\ candIdx = 0
    /\ filtered = <<>>
    /\ calls = <<>>
    /\ extracted_emails = <<>>
    /\ emIdx = 0
    /\ valid_emails = <<>>
    /\ em_calls = <<>>
    /\ norm_url = None
    /\ fetches = 0
    /\ phones_col = <<>>
    /\ addl_phones_col = <<>>
    /\ email_col = <<>>
    /\ enriched = <<>>
    /\ outputs = <<>>
    /\ fixed = <<>>

Init ==
    /\ API_KEY \in BOOLEAN
    /\ site_page \in Pages
    /\ deliverable \in SUBSET EmailSet(site_page)
    /\ PInit
    /\ UInit

\* the local variables of a row of enrich_csv, dead once the row is done
RowLocalsCleared ==
    /\ csv_phone_for_save' = <<>>
    /\ html' = <<>>
    /\ candidates' = <<>>
    /\ deduped' = <<>>
    /\ candIdx' = 0
    /\ filtered' = <<>>
    /\ calls' = <<>>
    /\ extracted_emails' = <<>>
    /\ emIdx' = 0
    /\ valid_emails' = <<>>
    /\ em_calls' = <<>>
    /\ norm_url' = None

\* CityRaises with a fault: the exception is not caught and main ends there
CityRaises_uncaught(e) ==
    /\ cityStatus' = Append(cityStatus, e)
    /\ cityIdx' = cityIdx
    /\ pc' = "done"
    /\ RowLocalsCleared

\* main lines 334-336: an exception left process_city; it is caught, the city is
\* over and the loop goes on with the next city
CityRaises(e) ==
    /\ cityStatus' = Append(cityStatus, e)
    /\ cityIdx' = cityIdx + 1
    /\ pc' = "main"
    /\ RowLocalsCleared

\* main line 332, process_city lines 171-211 up to the for loop of enrich_csv:
\* the scrape and the merge by name gave a table of nRows rows
StartCity ==
    /\ pc = "main"
    /\ cityIdx <= NumCities
    /\ \E n \in 1..MaxRows : nRows' = n
    /\ rowIdx' = 1
    /\ phones_col' = <<>>
    /\ addl_phones_col' = <<>>
    /\ email_col' = <<>>
    /\ pc' = "rows"
    /\ UNCHANGED <<API_KEY, site_page, deliverable, cityIdx, cityStatus, fetches, rowvars,
                   filevars>>
    /\ UNCHANGED uvars

\* main lines 334-336: process_city raised before enrich_csv (the scrape, the
\* merge); the exception is caught and the loop goes on
ScrapeFails ==
    /\ pc = "main"
    /\ cityIdx <= NumCities
    /\ cityStatus' = Append(cityStatus, "Exception")
    /\ cityIdx' = cityIdx + 1
    /\ UNCHANGED <<API_KEY, site_page, deliverable, pc, nRows, rowIdx, fetches, rowvars,
                   colvars, filevars>>
    /\ UNCHANGED uvars

\* enrich_csv lines 246-275: the candidates of the row, the page fetch included.
\* A ValueError of urlparse leaves enrich_csv and process_city and is caught by main.
BeginRow ==
    /\ pc = "rows"
    /\ rowIdx <= nRows
    /\ \E raw_csv_phone \in CsvPhones, row_website \in Websites,
          page \in fetch_page_text(site_page) :
        LET cleaned == clean_csv_phone_for_save(raw_csv_phone)
            url == normalize_url(row_website)
            text == IF url # None THEN page ELSE <<>>
            contacts == extract_contacts(text)
            extracted_phones == IF text # <<>> THEN contacts.phones ELSE <<>>
            cands == candidates_of(raw_csv_phone, extracted_phones)
        IN  IF url = InvalidURL
            THEN /\ CityRaises("InvalidURL")
                 /\ UNCHANGED fetches
            ELSE /\ csv_phone_for_save' = cleaned
                 /\ html' = text
                 /\ norm_url' = url
                 /\ fetches' = IF url # None THEN fetches + 1 ELSE fetches
                 /\ candidates' = cands
                 /\ deduped' = dedupe_preserve_order(cands)
                 /\ extracted_emails' = IF text # <<>> THEN contacts.emails ELSE <<>>
                 /\ candIdx' = 1
                 /\ filtered' = <<>>
                 /\ calls' = <<>>
                 /\ emIdx' = 0
                 /\ valid_emails' = <<>>
                 /\ em_calls' = <<>>
                 /\ pc' = "verify"
                 /\ UNCHANGED <<cityIdx, cityStatus>>
    /\ UNCHANGED <<API_KEY, site_page, deliverable, nRows, rowIdx, colvars, filevars>>
    /\ UNCHANGED uvars

\* enrich_csv lines 275-289: one iteration of the loop over the deduped
\* candidates. A ValueError of verify_phone leaves enrich_csv and process_city
\* and is caught by main (lines 334-336), which goes on with the next city.
VerifyStep ==
    /\ pc = "verify"
    /\ candIdx <= Len(deduped)
    /\ \E outcome \in (IF API_KEY THEN RunOutcomes ELSE {Rejecting}) :
        LET phone == deduped[candIdx]
            n == IntStr(digits_only(phone))
            result == verify_phone(API_KEY, n, outcome)
            normalized == format_us_phone_e164(phone)
        IN  IF result = "ValueError"
            THEN CityRaises("ValueError")
            ELSE /\ calls' = Append(calls, [number |-> n, kind |-> outcome.kind,
                                            result |-> result])
                 /\ filtered' = IF result = "True" /\ normalized # None
                                THEN Append(filtered, normalized) ELSE filtered
                 /\ candIdx' = candIdx + 1
                 /\ UNCHANGED <<cityStatus, cityIdx, pc, csv_phone_for_save, html, candidates,
                                deduped, extracted_emails, emIdx, valid_emails, em_calls,
                                norm_url>>
    /\ UNCHANGED <<API_KEY, site_page, deliverable, nRows, rowIdx, fetches, colvars, filevars>>
    /\ UNCHANGED uvars

\* EndRow with a fault: Additional Phones holds every kept phone, the first included
EndRow_first_in_additional ==
    /\ pc = "verify"
    /\ candIdx > Len(deduped)
    /\ phones_col' = Append(phones_col, IF filtered = <<>> THEN <<>> ELSE filtered[1])
    /\ addl_phones_col' =
        Append(addl_phones_col,
               IF Len(filtered) <= 1 THEN <<>> ELSE Join(filtered, CommaSpace))
    /\ emIdx' = 1
    /\ pc' = "emails"
    /\ UNCHANGED <<csv_phone_for_save, html, candidates, deduped, candIdx, filtered, calls,
                   extracted_emails, valid_emails, em_calls, norm_url, email_col>>
    /\ UNCHANGED <<API_KEY, site_page, deliverable, cityIdx, cityStatus, nRows, rowIdx,
                   fetches, filevars>>
    /\ UNCHANGED uvars

\* enrich_csv lines 291-305: Phone and Additional Phones of the row
EndRow ==
    /\ pc = "verify"
    /\ candIdx > Len(deduped)
    /\ phones_col' = Append(phones_col, IF filtered = <<>> THEN <<>> ELSE filtered[1])
    /\ addl_phones_col' =
        Append(addl_phones_col,
               IF Len(filtered) <= 1 THEN <<>> ELSE Join(Tail(filtered), CommaSpace))
    /\ emIdx' = 1
    /\ pc' = "emails"
    /\ UNCHANGED <<csv_phone_for_save, html, candidates, deduped, candIdx, filtered, calls,
                   extracted_emails, valid_emails, em_calls, norm_url, email_col>>
    /\ UNCHANGED <<API_KEY, site_page, deliverable, cityIdx, cityStatus, nRows, rowIdx,
                   fetches, filevars>>
    /\ UNCHANGED uvars

\* ValidateEmailStep with a fault: an address counts as seen before it is validated
ValidateEmailStep_dedupe_first ==
    /\ pc = "emails"
    /\ emIdx <= Len(extracted_emails)
    /\ LET em_str == Strip(extracted_emails[emIdx])
           outcome == EmailOutcome(em_str, deliverable)
           info == validate_email(em_str, outcome)
           normalized == Lower(info)
           seen == { Lower(em_calls[k].email) : k \in 1..Len(em_calls) }
       IN  IF em_str = <<>>
           THEN UNCHANGED <<valid_emails, em_calls>>
           ELSE /\ em_calls' = Append(em_calls, [email |-> em_str, result |-> outcome])
                /\ valid_emails' =
                       IF outcome = "valid" /\ Lower(em_str) \notin seen
                       THEN Append(valid_emails, normalized) ELSE valid_emails
    /\ emIdx' = emIdx + 1
    /\ UNCHANGED <<csv_phone_for_save, html, candidates, deduped, candIdx, filtered, calls,
                   extracted_emails, norm_url>>
    /\ UNCHANGED <<API_KEY, site_page, deliverable, pc, cityIdx, cityStatus, nRows, rowIdx,
                   fetches, colvars, filevars>>
    /\ UNCHANGED uvars

\* enrich_csv lines 306-318: one iteration of the loop over the extracted emails
ValidateEmailStep ==
    /\ pc = "emails"
    /\ emIdx <= Len(extracted_emails)
    /\ LET em_str == Strip(extracted_emails[emIdx])
           outcome == EmailOutcome(em_str, deliverable)
           info == validate_email(em_str, outcome)
           normalized == Lower(info)
       IN  IF em_str = <<>>
           THEN UNCHANGED <<valid_emails, em_calls>>
           ELSE /\ em_calls' = Append(em_calls, [email |-> em_str, result |-> outcome])
                /\ valid_emails' =
                       IF outcome = "valid" /\ normalized \notin Range(valid_emails)
                       THEN Append(valid_emails, normalized) ELSE valid_emails
    /\ emIdx' = emIdx + 1
    /\ UNCHANGED <<csv_phone_for_save, html, candidates, deduped, candIdx, filtered, calls,
                   extracted_emails, norm_url>>
    /\ UNCHANGED <<API_KEY, site_page, deliverable, pc, cityIdx, cityStatus, nRows, rowIdx,
                   fetches, colvars, filevars>>
    /\ UNCHANGED uvars

\* enrich_csv line 320 and the next iteration of line 246: Email of the row
EndEmails ==
    /\ pc = "emails"
    /\ emIdx > Len(extracted_emails)
    /\ email_col' = Append(email_col, Join(valid_emails, CommaSpace))
    /\ rowIdx' = rowIdx + 1
    /\ pc' = "rows"
    /\ RowLocalsCleared
    /\ UNCHANGED <<API_KEY, site_page, deliverable, cityIdx, cityStatus, nRows, fetches,
                   phones_col, addl_phones_col, filevars>>
    /\ UNCHANGED uvars

\* enrich_csv lines 322-339: the columns are attached and the file is written
WriteEnriched ==
    /\ pc = "rows"
    /\ rowIdx > nRows
    /\ enriched' = [k \in 1..nRows |->
                        [Phone |-> phones_col[k], AdditionalPhones |-> addl_phones_col[k],
                         Email |-> email_col[k]]]
    /\ pc' = "post"
    /\ UNCHANGED <<API_KEY, site_page, deliverable, cityIdx, cityStatus, nRows, rowIdx,
                   fetches, rowvars, colvars, outputs, fixed>>
    /\ UNCHANGED uvars

\* process_city lines 214-309 and main line 333: the enriched file is read back,
\* its phone and email columns rewritten, the city's files written, the temporary
\* files removed
PostProcess ==
    /\ pc = "post"
    /\ outputs' = outputs \o chunk_files(process_city_rows(enriched), chunk_size)
    /\ enriched' = <<>>
    /\ cityStatus' = Append(cityStatus, "ok")
    /\ cityIdx' = cityIdx + 1
    /\ pc' = "main"
    /\ UNCHANGED <<API_KEY, site_page, deliverable, nRows, rowIdx, fetches, rowvars, colvars,
                   fixed>>
    /\ UNCHANGED uvars

\* main line 334 catches Exception only: a KeyboardInterrupt (or any other
\* BaseException that is no Exception) raised while process_city runs passes the
\* handler and ends main; what the process held in memory is gone, the files it
\* wrote stay
Interrupted ==
    /\ \/ pc = "main" /\ cityIdx <= NumCities
       \/ pc \in {"rows", "verify", "emails", "post"}
    /\ cityStatus' = Append(cityStatus, "KeyboardInterrupt")
    /\ pc' = "aborted"
    /\ nRows' = 0
    /\ rowIdx' = 0
    /\ phones_col' = <<>>
    /\ addl_phones_col' = <<>>
    /\ email_col' = <<>>
    /\ RowLocalsCleared
    /\ UNCHANGED <<API_KEY, site_page, deliverable, cityIdx, fetches, filevars>>
    /\ UNCHANGED uvars

\* main lines 338-340: every city was attempted
MainDone ==
    /\ pc = "main"
    /\ cityIdx > NumCities
    /\ pc' = "done"
    /\ UNCHANGED <<API_KEY, site_page, deliverable, cityIdx, cityStatus, nRows, rowIdx,
                   fetches, rowvars, colvars, filevars>>
    /\ UNCHANGED uvars

\* fix_csv.main lines 159-165 on the files combined.py left in output/
FixCsv ==
    /\ pc = "done"
    /\ fixed' = [k \in 1..Len(outputs) |-> fix_csv(outputs[k])]
    /\ pc' = "fixed"
    /\ UNCHANGED <<API_KEY, site_page, deliverable, cityIdx, cityStatus, nRows, rowIdx,
                   fetches, rowvars, colvars, enriched, outputs>>
    /\ UNCHANGED uvars

Next ==
    \/ StartCity
    \/ ScrapeFails
    \/ BeginRow
    \/ VerifyStep
    \/ EndRow
    \/ ValidateEmailStep
    \/ EndEmails
    \/ WriteEnriched
    \/ PostProcess
    \/ Interrupted
    \/ MainDone
    \/ FixCsv

Spec == Init /\ [][Next]_vars

(***************************************************************************)
(* Unit harness: one pure function applied to an input drawn from a        *)
(* bounded set                                                             *)
(***************************************************************************)
MaxValues == 3
MaxBody == 12

\* candidate strings handed to dedupe_preserve_order: several writings of one
\* number, another number, and entries without digits
DedupePool ==
    { Dashed(NumA), NumA, <<"1">> \o NumA, PlusParen(NumA), Canon(NumA),
      Dashed(NumB), <<>>, <<" ", "-">>, <<"n", "/", "a">> }

Leads == { <<>>, <<"1">>, <<"+", "1">>, <<"+", "1", " ">>, <<"+">>, <<"2">> }

BodyBases == { NumA \o <<"5", "5", "5", "5">>, NumC \o <<"7", "7", "7", "7">> }

DashedBody(b) == IF Len(b) > 6 THEN Dashed(b) ELSE b

\* strings handed to format_us_phone_e164: 0 to MaxBody + 1 digits, with and
\* without separators, country code and plus sign
FormatPool ==
    UNION { { l \o SubSeq(b, 1, n), l \o DashedBody(SubSeq(b, 1, n)) } :
            <<l, b, n>> \in Leads \X BodyBases \X (0..MaxBody) }

MaxTokens == 4

\* pieces of page text: the groups of 832-810-7822, a bare run of its ten digits,
\* a second number written with dots, the country code, separators, a letter
Tokens ==
    { <<"+", "1">>, <<" ">>, <<"-">>, <<"(", "8", "3", "2", ")", " ">>, SubSeq(NumA, 1, 3),
      SubSeq(Dashed(NumA), 5, 12), NumA, <<"x">>,
      SubSeq(NumB, 1, 3) \o <<".">> \o SubSeq(NumB, 4, 6) \o <<".">> \o SubSeq(NumB, 7, 10) }

\* the unit harness leaves the run where it starts
UnitInit ==
    /\ UInit
    /\ API_KEY = TRUE
    /\ site_page = PageA
    /\ deliverable = {}
    /\ PInit

AppendValue ==
    /\ uOp \in {"idle", "values"}
    /\ Len(uIn) < MaxValues
    /\ \E v \in DedupePool : uIn' = Append(uIn, v)
    /\ uOp' = "values"
    /\ uOut' = <<>>
    /\ UNCHANGED pvars

CallDedupe ==
    /\ uOp \in {"idle", "values"}
    /\ uOp' = "dedupe"
    /\ uOut' = dedupe_preserve_order(uIn)
    /\ UNCHANGED uIn
    /\ UNCHANGED pvars

CallFormat ==
    /\ \E s \in FormatPool :
        /\ uIn' = s
        /\ uOut' = format_us_phone_e164(s)
    /\ uOp' = "format"
    /\ UNCHANGED pvars

CallVerify ==
    /\ \E k \in BOOLEAN, n \in {NumA, <<"1">> \o NumA, <<>>}, o \in ApiOutcomes :
        /\ uIn' = [apiKey |-> k, number |-> n, outcome |-> o]
        /\ uOut' = verify_phone(k, n, o)
    /\ uOp' = "verify"
    /\ UNCHANGED pvars

VerifyInit == UnitInit
VerifyNext == CallVerify
SpecVerify == VerifyInit /\ [][VerifyNext]_vars

(***************************************************************************)
(* C4: for a well-formed response, verify_phone returns True if and only   *)
(* if the response holds valid = true, isDisposable = false and a type     *)
(* that is, case-insensitively, mobile or fixed_line_or_mobile; any other  *)
(* combination, an absent field included, returns False.                   *)
(***************************************************************************)
C4_AcceptancePolicy ==
    (uOp = "verify" /\ uIn.apiKey /\ uIn.number # <<>> /\ uIn.outcome.kind = "json") =>
        /\ uOut \in {"True", "False"}
        /\ uOut = "True" <=>
            /\ uIn.outcome.valid = "true"
            /\ uIn.outcome.isDisposable = "false"
            /\ LineType(uIn.outcome.type) \in {"mobile", "fixed_line_or_mobile"}

AppendToken ==
    /\ uOp \in {"idle", "text"}
    /\ Len(uIn) < MaxTokens
    /\ \E t \in Tokens : uIn' = Append(uIn, t)
    /\ uOp' = "text"
    /\ uOut' = <<>>
    /\ UNCHANGED pvars

\* the text is the concatenation of the tokens
CallExtract ==
    /\ uOp \in {"idle", "text"}
    /\ uOp' = "extract"
    /\ uOut' = extract_contacts(Concat(uIn))
    /\ UNCHANGED uIn
    /\ UNCHANGED pvars

ExtractInit == UnitInit
ExtractNext == AppendToken \/ CallExtract
SpecExtract == ExtractInit /\ [][ExtractNext]_vars

DedupeInit == UnitInit
DedupeNext == AppendValue \/ CallDedupe
SpecDedupe == DedupeInit /\ [][DedupeNext]_vars

FormatInit == UnitInit
FormatNext == CallFormat
SpecFormat == FormatInit /\ [][FormatNext]_vars

(***************************************************************************)
(* C5: two strings that write the same US number have the same identity    *)
(* key, so dedupe_preserve_order never keeps two writings of one number.   *)
(***************************************************************************)
C5_IdentityUnderFormatting ==
    uOp = "dedupe" =>
        \A i, j \in 1..Len(uOut) :
            (i # j /\ USNumber(uOut[i]) # None) => USNumber(uOut[i]) # USNumber(uOut[j])

FirstIdx(values) ==
    { i \in 1..Len(values) :
        /\ digits_only(values[i]) # <<>>
        /\ \A j \in 1..(i - 1) : digits_only(values[j]) # digits_only(values[i]) }

NthOf(S, k) == CHOOSE i \in S : Cardinality({ j \in S : j <= i }) = k

(***************************************************************************)
(* C6: dedupe_preserve_order returns the entries of the input at the first *)
(* occurrence of each non-empty digits-only key, in input order, in their  *)
(* own surface form; no two kept entries share a key and entries without   *)
(* digits are dropped.                                                     *)
(***************************************************************************)
C6_DedupeFirstOccurrence ==
    uOp = "dedupe" =>
        /\ Len(uOut) = Cardinality(FirstIdx(uIn))
        /\ \A k \in 1..Len(uOut) : uOut[k] = uIn[NthOf(FirstIdx(uIn), k)]
        /\ \A i, j \in 1..Len(uOut) :
            i # j => digits_only(uOut[i]) # digits_only(uOut[j])
        /\ \A k \in 1..Len(uOut) : digits_only(uOut[k]) # <<>>
        /\ \A i \in 1..Len(uIn) :
            digits_only(uIn[i]) # <<>> =>
                \E k \in 1..Len(uOut) : digits_only(uOut[k]) = digits_only(uIn[i])

\* a duplicate written differently from the kept entry, and a blank entry, were dropped
C6_Witness ==
    /\ uOp = "dedupe"
    /\ uIn = << Dashed(NumA), NumA, Dashed(NumB) >>
    /\ uOut = << Dashed(NumA), Dashed(NumB) >>

(***************************************************************************)
(* C7: format_us_phone_e164 returns +1 and the digits for 10 digits, + and *)
(* the digits for 11 digits starting with 1, None otherwise; a result that *)
(* is not None is +1 and ten digits, and a canonical input is returned     *)
(* unchanged.                                                              *)
(***************************************************************************)
C7_FormatE164 ==
    uOp = "format" =>
        LET d == digits_only(uIn)
        IN  /\ Len(d) = 10 => uOut = <<"+", "1">> \o d
            /\ (Len(d) = 11 /\ d[1] = "1") => uOut = <<"+">> \o d
            /\ ~(Len(d) = 10 \/ (Len(d) = 11 /\ d[1] = "1")) => uOut = None
            /\ uOut # None => IsCanonical(uOut)
            /\ IsCanonical(uIn) => uOut = uIn

\* an 11-digit input with a plus sign and a leading digit other than 1 was rejected
C7_Witness ==
    /\ uOp = "format"
    /\ Len(digits_only(uIn)) = 11
    /\ digits_only(uIn)[1] # "1"
    /\ StartsWith(uIn, <<"+">>)
    /\ uOut = None

\* the substrings of the text that write the phone p and are no bare run of digits
Writings(text, p) ==
    { <<i, j>> \in (1..Len(text)) \X (1..Len(text)) :
        /\ i <= j
        /\ USNumber(SubSeq(text, i, j)) = SubSeq(p, 3, 12)
        /\ ~IsBareRun(SubSeq(text, i, j))
        /\ IsDigit(text[j])
        /\ text[i] \in Digits \cup {"+", "("} }

(***************************************************************************)
(* C9: every phone extract_contacts returns is +1 and ten digits, written  *)
(* in the text with a +1 prefix or with separators between its groups: a   *)
(* match of 10 digits gets +1, a match of 11 digits starting with 1 gets   *)
(* +, and a bare run of digits without +1 contributes no phone.            *)
(***************************************************************************)
C9_ExtractedPhonesCanonical ==
    uOp = "extract" =>
        LET text == Concat(uIn)
            d == digits_only(text)
        IN  /\ \A k \in 1..Len(uOut.phones) :
                /\ IsCanonical(uOut.phones[k])
                /\ Writings(text, uOut.phones[k]) # {}
            /\ (\A k \in 1..Len(text) : text[k] \notin Seps \cup {"+"}) => uOut.phones = <<>>
            /\ (Len(d) = 10 /\ text \in {Dashed(d), Paren(d)}) => uOut.phones = <<Canon(d)>>
            /\ (Len(d) = 11 /\ text \in {PlusParen(Tail(d)), Canon(Tail(d))})
                   => uOut.phones = <<<<"+">> \o d>>

\* a text with a separated number and a bare run of ten digits gave the one phone
C9_Witness ==
    /\ uOp = "extract"
    /\ uIn = << SubSeq(NumB, 1, 3) \o <<".">> \o SubSeq(NumB, 4, 6) \o <<".">> \o SubSeq(NumB, 7, 10),
                <<" ">>, NumA >>
    /\ uOut.phones = << Canon(NumB) >>

(***************************************************************************)
(* Rows of the tables                                                      *)
(***************************************************************************)
\* the entries of an Additional Phones cell
Entries(addl) ==
    IF addl = <<>> THEN <<>>
    ELSE LET parts == Split(addl, ",") IN [k \in 1..Len(parts) |-> Strip(parts[k])]

\* Phone is not among Additional Phones, compared by the number written
PhoneNotInAdditional(phone, addl) ==
    \A k \in 1..Len(Entries(addl)) :
        USNumber(phone) = None \/ USNumber(Entries(addl)[k]) # USNumber(phone)

CanonicalRow(phone, addl) ==
    /\ phone = <<>> \/ IsCanonical(phone)
    /\ \A k \in 1..Len(Entries(addl)) : IsCanonical(Entries(addl)[k])

\* the rows enrich_csv has produced so far
EnrichRows ==
    [k \in 1..Len(phones_col) |->
        [Phone |-> phones_col[k], AdditionalPhones |-> addl_phones_col[k]]]

AllRows(tables) == { tables[c][k] : <<c, k>> \in { x \in (1..Len(tables)) \X (1..MaxRows) :
                                                    x[2] <= Len(tables[x[1]]) } }

(***************************************************************************)
(* C1: in the row produced by enrich_csv and in the row after              *)
(* clean_additional_phones of process_city, Phone is never among           *)
(* Additional Phones when the two are compared by the number they denote.  *)
(***************************************************************************)
C1_PhoneNotInAdditionalPhones ==
    /\ \A k \in 1..Len(EnrichRows) :
        PhoneNotInAdditional(EnrichRows[k].Phone, EnrichRows[k].AdditionalPhones)
    /\ \A r \in AllRows(outputs) : PhoneNotInAdditional(r.Phone, r.AdditionalPhones)

(***************************************************************************)
(* C2: when API_KEY is not set the run aborts at startup (and until it is   *)
(* interrupted from outside, if ever): no page is                          *)
(* fetched, no row is produced, no file is written, and once the missing   *)
(* credential has been reported no further city is processed.              *)
(***************************************************************************)
C2_MissingCredentialAbortsRun ==
    (~API_KEY /\ pc # "aborted") =>
        /\ fetches = 0
        /\ phones_col = <<>>
        /\ outputs = <<>>
        /\ \A i \in 1..Len(cityStatus) :
            cityStatus[i] = "ValueError" =>
                (i = Len(cityStatus) /\ pc \notin {"rows", "verify", "emails", "post"})

KeptIdx ==
    { i \in 1..Len(calls) :
        calls[i].result = "True" /\ format_us_phone_e164(deduped[i]) # None }

\* filtered holds the canonical forms of the accepted candidates, in candidate order
FilteredIsAccepted ==
    /\ Len(filtered) = Cardinality(KeptIdx)
    /\ \A k \in 1..Len(filtered) :
        filtered[k] = format_us_phone_e164(deduped[NthOf(KeptIdx, k)])

(***************************************************************************)
(* C3: with API_KEY set, a validation call that raises or returns a        *)
(* malformed body makes verify_phone return False; the candidate does not  *)
(* enter filtered (so neither Phone nor Additional Phones), the run is not *)
(* aborted, and the loop goes on to the remaining candidates, which are    *)
(* kept when accepted and canonicalizable.                                 *)
(***************************************************************************)
C3_FailClosedValidator ==
    API_KEY =>
        /\ \A i \in 1..Len(calls) :
            calls[i].kind # "json" => (calls[i].result = "False" /\ i \notin KeptIdx)
        /\ pc = "verify" =>
            /\ Len(calls) = candIdx - 1
            /\ \A i \in 1..Len(calls) : calls[i].number = IntStr(digits_only(deduped[i]))
            /\ FilteredIsAccepted
        /\ \A i \in 1..Len(cityStatus) : cityStatus[i] # "ValueError"

\* the call for the first candidate raised, the second candidate was accepted and kept
C3_Witness ==
    /\ API_KEY
    /\ pc = "verify"
    /\ Len(calls) = 2
    /\ calls[1].kind = "raise"
    /\ calls[2].result = "True"
    /\ filtered = << format_us_phone_e164(deduped[2]) >>

(***************************************************************************)
(* C8: in every row written by enrich_csv, by process_city and by fix_csv, *)
(* Phone is empty or +1 and ten digits, and every entry of Additional      *)
(* Phones is +1 and ten digits.                                            *)
(***************************************************************************)
C8_OutputPhonesCanonical ==
    /\ \A k \in 1..Len(EnrichRows) :
        CanonicalRow(EnrichRows[k].Phone, EnrichRows[k].AdditionalPhones)
    /\ \A r \in AllRows(outputs) : CanonicalRow(r.Phone, r.AdditionalPhones)
    /\ \A r \in AllRows(fixed) : CanonicalRow(r.Phone, r.AdditionalPhones)

CsvPart == IF csv_phone_for_save # <<>> THEN <<csv_phone_for_save>> ELSE <<>>

ExtractedPart == SubSeq(candidates, Len(CsvPart) + 1, Len(candidates))

(***************************************************************************)
(* C10 as claimed: the candidates of a row are the CSV phone, then the     *)
(* extracted phones in the order they are first seen in the page text.     *)
(***************************************************************************)
C10_ExtractedInTextOrder ==
    pc = "verify" =>
        /\ SubSeq(candidates, 1, Len(CsvPart)) = CsvPart
        /\ ExtractedPart = ByFirstSeen(html, PhoneSet(html))

(***************************************************************************)
(* C10 amended: the candidates of a row are the CSV phone, then the        *)
(* extracted phones in ascending order of their strings (the order         *)
(* extract_contacts returns them in), whatever their order in the page     *)
(* text; the deduped list and filtered, from which Phone and Additional    *)
(* Phones are taken, follow that order.                                    *)
(***************************************************************************)
C10_ExtractedInSortedOrder ==
    pc = "verify" =>
        /\ SubSeq(candidates, 1, Len(CsvPart)) = CsvPart
        /\ \A i, j \in 1..Len(ExtractedPart) :
            i < j => StrLess(ExtractedPart[i], ExtractedPart[j])
        /\ { ExtractedPart[i] : i \in 1..Len(ExtractedPart) } = PhoneSet(html)
        /\ Len(deduped) = Cardinality(FirstIdx(candidates))
        /\ \A k \in 1..Len(deduped) : deduped[k] = candidates[NthOf(FirstIdx(candidates), k)]
        /\ FilteredIsAccepted

\* the page writes 832... before 555..., and the accepted 555... precedes 832...
C10_Witness ==
    /\ pc = "verify"
    /\ html = PageAB
    /\ csv_phone_for_save = <<>>
    /\ candIdx > Len(deduped)
    /\ filtered = << Canon(NumB), Canon(NumA) >>

\* the canonical forms of the deduped candidates that were accepted, in candidate order
Survivors == [k \in 1..Cardinality(KeptIdx) |-> format_us_phone_e164(deduped[NthOf(KeptIdx, k)])]

(***************************************************************************)
(* C11: whenever enrich_csv adds a row, every deduped candidate has had    *)
(* its validation call, Phone is the canonical form of the first candidate *)
(* that was accepted and canonicalizable, and Additional Phones is the     *)
(* comma-joined list of the canonical forms of the other such candidates   *)
(* in the same order; when no candidate survives both are the empty        *)
(* string and the row is added all the same.                               *)
(***************************************************************************)
C11_PhoneIsFirstSurvivor ==
    [][Len(phones_col') > Len(phones_col) =>
        /\ pc = "verify"
        /\ Len(calls) = Len(deduped)
        /\ Len(phones_col') = Len(phones_col) + 1
        /\ Len(addl_phones_col') = Len(phones_col')
        /\ phones_col'[Len(phones_col')] = IF Survivors = <<>> THEN <<>> ELSE Survivors[1]
        /\ addl_phones_col'[Len(phones_col')] =
            IF Survivors = <<>> THEN <<>> ELSE Join(Tail(Survivors), CommaSpace)
        /\ pc' = "emails"]_vars

\* one row had no survivor; the next has a Phone and two additional phones
C11_Witness ==
    /\ Len(phones_col) = 2
    /\ phones_col[1] = <<>>
    /\ addl_phones_col[1] = <<>>
    /\ phones_col[2] = Canon(NumA)
    /\ addl_phones_col[2] = Canon(NumB) \o CommaSpace \o Canon(NumA)

\* the validated addresses that are the first of their lower-cased form to pass
ValidIdx ==
    { i \in 1..Len(em_calls) :
        /\ em_calls[i].result = "valid"
        /\ \A j \in 1..(i - 1) :
            em_calls[j].result = "valid" => Lower(em_calls[j].email) # Lower(em_calls[i].email) }

KeptEmails == [k \in 1..Cardinality(ValidIdx) |-> Lower(em_calls[NthOf(ValidIdx, k)].email)]

\* Email and the entries of Additional Emails of a row of output/
EmailList(r) == IF r.Email = <<>> THEN <<>> ELSE <<r.Email>> \o Entries(r.AdditionalEmails)

IsLower(s) == Lower(s) = s

(***************************************************************************)
(* C12: during the email loop of a row every extracted candidate so far    *)
(* has been validated once, in order, and valid_emails holds the           *)
(* lower-cased candidates that passed, each at its first passing           *)
(* occurrence, a rejected one being skipped while the loop goes on; the    *)
(* Email cell enrich_csv adds is their comma-joined list; process_city     *)
(* makes the first Email and the rest Additional Emails; and in every row  *)
(* of output/ the addresses are lower-case and pairwise different, so      *)
(* Email is not among Additional Emails whatever the case.                 *)
(***************************************************************************)
C12_EmailsValidatedThenDeduped ==
    /\ [](pc = "emails" =>
            /\ Len(em_calls) = emIdx - 1
            /\ \A i \in 1..Len(em_calls) : em_calls[i].email = extracted_emails[i]
            /\ valid_emails = KeptEmails)
    /\ [](\A r \in AllRows(outputs) :
            /\ r.Email = <<>> => r.AdditionalEmails = <<>>
            /\ \A i \in 1..Len(EmailList(r)) :
                /\ IsLower(EmailList(r)[i])
                /\ \A j \in 1..Len(EmailList(r)) :
                    i # j => Lower(EmailList(r)[i]) # Lower(EmailList(r)[j]))
    /\ [][Len(email_col') > Len(email_col) =>
            /\ pc = "emails"
            /\ Len(em_calls) = Len(extracted_emails)
            /\ email_col' = Append(email_col, Join(KeptEmails, CommaSpace))]_vars
    /\ [][Len(outputs') > Len(outputs) =>
            /\ Len(outputs') = Len(outputs) + 1
            /\ Len(outputs'[Len(outputs')]) = Len(enriched)
            /\ \A k \in 1..Len(enriched) :
                EmailList(outputs'[Len(outputs')][k]) = Entries(enriched[k].Email)]_vars

\* I@b.io was rejected and i@b.io, seen after a@c.io, was kept: a row of output/ has
\* Email a@c.io and Additional Emails i@b.io
C12_Witness ==
    /\ deliverable = { <<"a", "@", "c", ".", "i", "o">>, <<"i", "@", "b", ".", "i", "o">> }
    /\ \E r \in AllRows(outputs) :
        /\ r.Email = <<"a", "@", "c", ".", "i", "o">>
        /\ r.AdditionalEmails = <<"i", "@", "b", ".", "i", "o">>

\* a URL https://host/... with a host that is not empty
HasHost(url) ==
    /\ url # None
    /\ StartsWith(url, Https)
    /\ FindFirst(url, Len(Https) + 1, {"/", "?", "#"}) > Len(Https) + 1

(***************************************************************************)
(* C13: unless the run is interrupted, the step that starts a row never    *)
(* leaves enrich_csv; it fetches a                                         *)
(* page only when the website normalizes to a URL with a host; when it     *)
(* fetches nothing, or the fetch fails or returns no text, the candidates  *)
(* of the row are the CSV phone alone (if any) and there are no emails;    *)
(* and the row that finishes its loops is added to the three columns.      *)
(***************************************************************************)
C13_FetchOnlyWithHost ==
    /\ [][(pc = "rows" /\ rowIdx <= nRows /\ pc' # "aborted") =>
            /\ pc' = "verify"
            /\ fetches' \in {fetches, fetches + 1}
            /\ fetches' = fetches + 1 <=> HasHost(norm_url')
            /\ fetches' = fetches => norm_url' = None
            /\ html' = <<>> =>
                /\ candidates' = (IF csv_phone_for_save' # <<>>
                                  THEN <<csv_phone_for_save'>> ELSE <<>>)
                /\ extracted_emails' = <<>>]_vars
    /\ [][(pc = "emails" /\ pc' \notin {"emails", "aborted"}) =>
            /\ Len(phones_col') = rowIdx
            /\ Len(addl_phones_col') = rowIdx
            /\ Len(email_col') = rowIdx
            /\ html = <<>> => email_col'[rowIdx] = <<>>]_vars

\* combined.main is inside the for loop of enrich_csv
InEnrich == pc \in {"rows", "verify", "emails"}

(***************************************************************************)
(* C14: with API_KEY set and the run not interrupted from outside, no      *)
(* record stops enrich_csv: a step taken inside                            *)
(* its loop stays in the loop or ends it by writing the file; the records  *)
(* are taken one by one in input order, each adding one entry to every     *)
(* column; and the file written has exactly one row per input row, row k   *)
(* holding what record k gave.                                             *)
(***************************************************************************)
C14_NoRecordStopsTheRun ==
    /\ [][(API_KEY /\ InEnrich /\ pc' # "aborted") =>
            /\ pc' \in {"rows", "verify", "emails", "post"}
            /\ rowIdx' \in {rowIdx, rowIdx + 1}
            /\ rowIdx' = rowIdx + 1 =>
                /\ Len(phones_col') = rowIdx
                /\ Len(addl_phones_col') = rowIdx
                /\ Len(email_col') = rowIdx
                /\ \A k \in 1..(rowIdx - 1) :
                    /\ phones_col'[k] = phones_col[k]
                    /\ addl_phones_col'[k] = addl_phones_col[k]
                    /\ email_col'[k] = email_col[k]
            /\ pc' = "post" =>
                /\ rowIdx = nRows + 1
                /\ Len(enriched') = nRows
                /\ \A k \in 1..nRows :
                    enriched'[k] = [Phone |-> phones_col[k],
                                    AdditionalPhones |-> addl_phones_col[k],
                                    Email |-> email_col[k]]]_vars
    /\ []((API_KEY /\ InEnrich) =>
            /\ rowIdx \in 1..(nRows + 1)
            /\ Len(email_col) = rowIdx - 1)

\* the derived fields of a row are all there, each a string (possibly empty)
IsText(x) == x \in Seq(Range(x))

WholeRow(r, fields) == fields \subseteq DOMAIN r /\ \A f \in fields : IsText(r[f])

(***************************************************************************)
(* C15: every row of every file that exists (the enriched file, the files  *)
(* of output/ and of fixed/) has all its derived fields, possibly empty;   *)
(* and, with API_KEY set and no interrupt, a record that raises is         *)
(* skipped: enrich_csv                                                     *)
(* still ends by writing a file that holds the other records.              *)
(***************************************************************************)
C15_NoPartialRecord ==
    /\ [](/\ \A k \in 1..Len(enriched) :
                WholeRow(enriched[k], {"Phone", "AdditionalPhones", "Email"})
          /\ \A r \in AllRows(outputs) \cup AllRows(fixed) :
                WholeRow(r, {"Phone", "AdditionalPhones", "Email", "AdditionalEmails"}))
    /\ [][(API_KEY /\ InEnrich /\ ~InEnrich' /\ pc' # "aborted") =>
            /\ pc' = "post"
            /\ Len(enriched') >= nRows - 1]_vars

(***************************************************************************)
(* Unit harness: the merge by name of process_city, followed by what       *)
(* enrich_csv makes of each merged row when the row has no website and     *)
(* verify_phone accepts every number                                       *)
(***************************************************************************)
MaxListings == 3

\* the listings of a scrape: a name and a phone as Google Maps shows it, or none
ListingPool ==
    { [name |-> n, phone_number |-> ph] :
        n \in { <<"A", "c", "m", "e">>, <<"B", "e", "s", "t">> },
        ph \in { NaN, Paren(NumA), Dashed(NumA), Paren(NumB) } }

\* df_deduped.to_csv (line 206) and pd.read_csv (crawler.py line 231): the
\* phone_number column as enrich_csv reads it
temp_csv_phones(rows) ==
    ReadInferredColumn([k \in 1..Len(rows) |->
        IF rows[k].phone_number = NaN THEN <<>> ELSE rows[k].phone_number])

AppendListing ==
    /\ uOp \in {"idle", "listings"}
    /\ Len(uIn) < MaxListings
    /\ \E l \in ListingPool : uIn' = Append(uIn, l)
    /\ uOp' = "listings"
    /\ uOut' = <<>>
    /\ UNCHANGED pvars

CallMerge ==
    /\ uOp \in {"idle", "listings"}
    /\ uOp' = "merge"
    /\ uOut' = LET rows == df_deduped(uIn)
                   phones == temp_csv_phones(rows)
               IN  [k \in 1..Len(rows) |->
                      LET cands == dedupe_preserve_order(candidates_of(phones[k], <<>>))
                      IN  [name |-> rows[k].name,
                           phone_number |-> rows[k].phone_number,
                           candidates |-> cands,
                           filtered |-> filtered_all_accepted(cands)]]
    /\ UNCHANGED uIn
    /\ UNCHANGED pvars

MergeInit == UnitInit
MergeNext == AppendListing \/ CallMerge
SpecMerge == MergeInit /\ [][MergeNext]_vars

(***************************************************************************)
(* C16: after the merge there is one row per name of the listings, and     *)
(* every phone of a listing is, as a number, among the candidates of the   *)
(* row of its name and, the validator accepting it, among the phones kept  *)
(* for Phone and Additional Phones.                                        *)
(***************************************************************************)
C16_MergedPhonesKept ==
    uOp = "merge" =>
        /\ \A i, j \in 1..Len(uOut) : i # j => uOut[i].name # uOut[j].name
        /\ { uOut[k].name : k \in 1..Len(uOut) } = { uIn[i].name : i \in 1..Len(uIn) }
        /\ \A i \in 1..Len(uIn) :
            uIn[i].phone_number # NaN =>
                \E k \in 1..Len(uOut) :
                    /\ uOut[k].name = uIn[i].name
                    /\ \E c \in 1..Len(uOut[k].candidates) :
                        USNumber(uOut[k].candidates[c]) = USNumber(uIn[i].phone_number)
                    /\ \E c \in 1..Len(uOut[k].filtered) :
                        USNumber(uOut[k].filtered[c]) = USNumber(uIn[i].phone_number)

(***************************************************************************)
(* Unit harness: the chunk files of process_city for a table of any        *)
(* length.  A row is named by its position in the enriched table; the      *)
(* operator wants some chunk size, which process_city has no way to take   *)
(***************************************************************************)
MaxTableRows == 205

\* the chunk sizes an operator may want
WantedSizes == {1, 2, chunk_size, chunk_size + 1}

AddTableRow ==
    /\ uOp \in {"idle", "table"}
    /\ Len(uIn) < MaxTableRows
    /\ uIn' = Append(uIn, Len(uIn) + 1)
    /\ uOp' = "table"
    /\ uOut' = <<>>
    /\ UNCHANGED pvars

WriteChunks ==
    /\ uOp \in {"idle", "table"}
    /\ \E wanted \in WantedSizes :
        uOut' = [wanted |-> wanted, files |-> chunk_files(uIn, chunk_size)]
    /\ uOp' = "chunks"
    /\ UNCHANGED uIn
    /\ UNCHANGED pvars

ChunkInit == UnitInit
ChunkNext == AddTableRow \/ WriteChunks
SpecChunk == ChunkInit /\ [][ChunkNext]_vars

\* the rows of the files, one file after the other
RECURSIVE RowsOfFiles(_)
RowsOfFiles(files) ==
    IF files = <<>> THEN <<>>
    ELSE RowsOfFiles(SubSeq(files, 1, Len(files) - 1)) \o files[Len(files)]

\* the files hold every row once, in order, none more than size rows
Partitions(files, rows, size) ==
    /\ RowsOfFiles(files) = rows
    /\ \A i \in 1..Len(files) : Len(files[i]) <= size

C18_OneCallPerSurvivor ==
    /\ [](pc \in {"verify", "emails"} =>
            /\ pc = "verify" => Len(calls) = candIdx - 1
            /\ pc = "emails" => Len(calls) = Len(deduped)
            /\ \A k \in 1..Len(calls) :
                /\ calls[k].number = digits_only(deduped[k])
                /\ calls[k].number # <<>>
            /\ \A j, k \in 1..Len(calls) : j # k => calls[j].number # calls[k].number)
    /\ [][fetches' # fetches =>
            /\ fetches' = fetches + 1
            /\ pc = "rows" /\ pc' = "verify"
            /\ norm_url' # None]_vars
    /\ [][(pc = "verify" /\ pc' = "verify") =>
            /\ Len(calls') = Len(calls) + 1
            /\ SubSeq(calls', 1, Len(calls)) = calls]_vars

\* main is no longer running
MainEnded == pc \in {"done", "fixed", "aborted"}

\* the statuses main's handler (except Exception) records for a city
CaughtStatuses == {"Exception", "ValueError", "InvalidURL"}

\* cities are taken one after the other in the order given: the status of city k
\* is entry k of cityStatus, written while cityIdx = k
CitiesInOrder ==
    /\ [](pc # "aborted" => Len(cityStatus) = cityIdx - 1)
    /\ [][cityIdx' # cityIdx => cityIdx' = cityIdx + 1 /\ Len(cityStatus') = cityIdx]_vars
    /\ [][Len(cityStatus') >= Len(cityStatus)
          /\ SubSeq(cityStatus', 1, Len(cityStatus)) = cityStatus
          /\ Len(cityStatus') <= Len(cityStatus) + 1]_vars

(***************************************************************************)
(* C19 as stated: cities are processed one after the other in the order    *)
(* given; whatever is raised while a city is processed, main goes on with  *)
(* the next city; when main has ended every city was attempted exactly     *)
(* once.                                                                   *)
(***************************************************************************)
C19_AnyExceptionCaught ==
    /\ CitiesInOrder
    /\ [][(Len(cityStatus') > Len(cityStatus) /\ cityStatus'[Len(cityStatus')] # "ok")
            => pc' = "main" /\ cityIdx' = cityIdx + 1]_vars
    /\ [](MainEnded => Len(cityStatus) = NumCities /\ cityIdx = NumCities + 1)

(***************************************************************************)
(* C19 amended: cities are processed one after the other in the order      *)
(* given; an exception of class Exception raised while a city is processed *)
(* is caught and main goes on with the next city; when main has reached    *)
(* its end every city was attempted exactly once; main stops before its    *)
(* end only through an exception that is no Exception, such as             *)
(* KeyboardInterrupt, which ends the run in the city where it is raised.   *)
(***************************************************************************)
C19_ExceptionsCaught ==
    /\ CitiesInOrder
    /\ [][(Len(cityStatus') > Len(cityStatus)
           /\ cityStatus'[Len(cityStatus')] \in CaughtStatuses)
            => pc' = "main" /\ cityIdx' = cityIdx + 1]_vars
    /\ [](pc \in {"done", "fixed"} =>
            /\ Len(cityStatus) = NumCities
            /\ cityIdx = NumCities + 1
            /\ \A k \in 1..NumCities : cityStatus[k] \in CaughtStatuses \cup {"ok"})
    /\ [](pc = "aborted" =>
            /\ cityStatus[Len(cityStatus)] = "KeyboardInterrupt"
            /\ Len(cityStatus) = cityIdx
            /\ \A k \in 1..(Len(cityStatus) - 1) : cityStatus[k] \in CaughtStatuses \cup {"ok"})

C19_Witness ==
    /\ pc = "done"
    /\ cityStatus[1] \in CaughtStatuses
    /\ cityStatus[NumCities] = "ok"

====
